---- MODULE Spec2Model ----
(***************************************************************************)
(* Model of the camera example program in src/src/main.rs: the two        *)
(* argument parsers (IndexKind::from_str, PropertyKind::from_str), the     *)
(* command dispatch of nokhwa_main with camera_print_controls and          *)
(* camera_compatible_formats, and the presentation step                    *)
(* CaptureState::draw reading from the frame channel.                      *)
(*                                                                         *)
(* Text is modelled as a sequence of one-character strings, so that case   *)
(* folding and decimal parsing are computed character by character.        *)
(***************************************************************************)
EXTENDS Integers, Sequences, FiniteSets, TLC

VARIABLES
    pc,          \* position of the running program / parser
    arg,         \* the text handed to a from_str parser
    result,      \* what the parser returned
    cli,         \* the parsed command line (struct Cli after Cli::parse)
    camera,      \* the opened Camera: None, or Some(the CameraIndex it was opened with)
    stdout,      \* the lines printed so far
    queried,     \* frame-format kinds passed to compatible_list_by_resolution so far
    compatible,  \* the result of the latest compatible_list_by_resolution call
    queue,       \* frames in flight in the flume channel
    senders,     \* TRUE while the sending side of the channel exists
    captured,    \* the frame the producer holds between read and send
    produced,    \* number of frames the producer has read
    dpc,         \* position inside CaptureState::draw
    buffer,      \* draw's local `buffer` (the received frame)
    selfBuffer,  \* CaptureState.buffer, the decode target
    call,        \* bookkeeping of the current / latest draw call
    draws,       \* number of draw calls started
    recvLog,     \* one entry per recv() of draw: what it returned and when
    presented    \* ids of the frames submitted for presentation, in order

vars == <<pc, arg, result, cli, camera, stdout, queried, compatible, queue,
          senders, captured, produced, dpc, buffer, selfBuffer, call, draws,
          recvLog, presented>>

cliVars == <<cli, camera, stdout, queried, compatible>>
parseVars == <<arg, result>>
streamVars == <<queue, senders, captured, produced, dpc, buffer, selfBuffer,
                call, draws, recvLog, presented>>

None == [tag |-> "None"]

\* ------------------------------------------------------------------ bounds
MaxUpper == 2     \* upper-cased positions in a generated casing of a name
MaxSelLen == 2    \* length of the generated device-selector texts
NumFormats == 2   \* frame-format kinds returned by frame_formats()
MaxCtrls == 2     \* controls a camera reports
MaxDevices == 2   \* devices the backend reports
MaxFrames == 3    \* frames the producer reads
MaxDraws == 3     \* draw calls the event loop makes

\* ------------------------------------------------------------- characters
LowerChars == <<"a","b","c","d","e","f","g","h","i","j","k","l","m",
                "n","o","p","q","r","s","t","u","v","w","x","y","z">>
UpperChars == <<"A","B","C","D","E","F","G","H","I","J","K","L","M",
                "N","O","P","Q","R","S","T","U","V","W","X","Y","Z">>
Digits == <<"0","1","2","3","4","5","6","7","8","9">>

IndexIn(c, chars) == CHOOSE i \in DOMAIN chars : chars[i] = c
IsIn(c, chars) == \E i \in DOMAIN chars : chars[i] = c

ToLowerChar(c) == IF IsIn(c, UpperChars) THEN LowerChars[IndexIn(c, UpperChars)] ELSE c
ToUpperChar(c) == IF IsIn(c, LowerChars) THEN UpperChars[IndexIn(c, LowerChars)] ELSE c
ToLowerStr(s) == [i \in DOMAIN s |-> ToLowerChar(s[i])]
ToUpperStr(s) == [i \in DOMAIN s |-> ToUpperChar(s[i])]

\* ------------------------------------------------ PropertyKind::from_str
Ok(v) == [tag |-> "Ok", val |-> v]
Err(e) == [tag |-> "Err", err |-> e]

StrAll == <<"A","l","l">>
StrControls == <<"C","o","n","t","r","o","l","s">>
StrCompatibleFormats ==
    <<"C","o","m","p","a","t","i","b","l","e","F","o","r","m","a","t","s">>
StrCtrls == <<"c","t","r","l","s">>
StrCf == <<"c","f">>
StrCompatfmts == <<"c","o","m","p","a","t","f","m","t","s">>

\* A plausible variant: fold the case of the input before matching.
PropertyKindFromStrFolding(s) ==
    LET l == ToLowerStr(s) IN
    IF l = ToLowerStr(StrAll) THEN Ok("All")
    ELSE IF l \in {ToLowerStr(StrControls), StrCtrls} THEN Ok("Controls")
    ELSE IF l \in {ToLowerStr(StrCompatibleFormats), StrCf, StrCompatfmts}
         THEN Ok("CompatibleFormats")
    ELSE Err([unknownPropertyKind |-> s])

\* main.rs:109-117, the match on the literal spellings.
PropertyKindFromStr(s) ==
    IF s \in { <<"A","l","l">>, <<"A","L","L">>, <<"a","l","l">> }
        THEN Ok("All")
    ELSE IF s \in { <<"C","o","n","t","r","o","l","s">>,
                    <<"c","o","n","t","r","o","l","s">>,
                    <<"C","O","N","T","R","O","L","S">>,
                    <<"c","t","r","l","s">> }
        THEN Ok("Controls")
    ELSE IF s \in { <<"C","o","m","p","a","t","i","b","l","e","F","o","r","m","a","t","s">>,
                    <<"c","o","m","p","a","t","i","b","l","e","f","o","r","m","a","t","s">>,
                    <<"C","O","M","P","A","T","I","B","L","E","F","O","R","M","A","T","S">>,
                    <<"c","f">>,
                    <<"c","o","m","p","a","t","f","m","t","s">> }
        THEN Ok("CompatibleFormats")
    ELSE Err([unknownPropertyKind |-> s])

\* ---------------------------------------------------- IndexKind::from_str
\* A u32 is kept as two 16-bit limbs, value = hi * U32Limb + lo, so that the
\* checked arithmetic of the parse keeps its 32-bit width.
U32Limb == 65536
Radix == 10
U32(h, l) == [hi |-> h, lo |-> l]

\* u32::checked_mul(acc, Radix)
CheckedMulRadix(acc) ==
    LET l == acc.lo * Radix
        h == acc.hi * Radix + (l \div U32Limb)
    IN  IF h >= U32Limb THEN None ELSE [tag |-> "Some", val |-> U32(h, l % U32Limb)]

\* u32::checked_add(acc, d), d a single digit
CheckedAddDigit(acc, d) ==
    LET l == acc.lo + d
        h == acc.hi + (l \div U32Limb)
    IN  IF h >= U32Limb THEN None ELSE [tag |-> "Some", val |-> U32(h, l % U32Limb)]

RECURSIVE ParseDigits(_, _)
\* the digit loop of str::parse::<u32>: invalid digit, or overflow, is an error
ParseDigits(digits, acc) ==
    IF digits = <<>> THEN Ok(acc)
    ELSE IF ~IsIn(Head(digits), Digits) THEN Err("InvalidDigit")
    ELSE LET m == CheckedMulRadix(acc) IN
         IF m = None THEN Err("PosOverflow")
         ELSE LET a == CheckedAddDigit(m.val, IndexIn(Head(digits), Digits) - 1) IN
              IF a = None THEN Err("PosOverflow")
              ELSE ParseDigits(Tail(digits), a.val)

\* s.parse::<u32>() (main.rs:75): empty text and a lone sign are errors, one
\* leading "+" is skipped, "-" is no digit of an unsigned type.
ParseU32(s) ==
    IF s = <<>> THEN Err("Empty")
    ELSE IF Len(s) = 1 /\ s[1] \in {"+", "-"} THEN Err("InvalidDigit")
    ELSE IF s[1] = "+" THEN ParseDigits(Tail(s), U32(0, 0))
    ELSE ParseDigits(s, U32(0, 0))

\* A plausible variant: the parse error is propagated instead of falling back.
IndexKindFromStrStrict(s) ==
    LET p == ParseU32(s) IN
    IF p.tag = "Ok" THEN Ok([tag |-> "Index", val |-> p.val]) ELSE p

\* main.rs:74-79
IndexKindFromStr(s) ==
    LET p == ParseU32(s) IN
    IF p.tag = "Ok" THEN Ok([tag |-> "Index", val |-> p.val])
    ELSE Ok([tag |-> "String", val |-> s])

\* ----------------------------------------------------------- parser inputs
\* the casings of w with at most MaxUpper upper-case letters, and all upper case
CaseVariants(w) ==
    LET l == ToLowerStr(w)
        few == { S \in SUBSET (DOMAIN l) : Cardinality(S) <= MaxUpper }
    IN  { [i \in DOMAIN l |-> IF i \in S THEN ToUpperChar(l[i]) ELSE l[i]] : S \in few }
        \cup { ToUpperStr(l) }

DocumentedNames ==
    {StrAll, StrControls, StrCompatibleFormats, StrCtrls, StrCf, StrCompatfmts}

KindTexts ==
    UNION { CaseVariants(w) : w \in DocumentedNames }
    \cup { <<"b","o","g","u","s">>, <<>>, <<"a","l">>, <<"a","l","l","l">>,
           <<"c","f","s">>, <<"c","t","r","l">>, <<"0">> }

SelAlphabet == {"0", "7", "9", "+", "-", "a"}
SelTexts ==
    UNION { [1..n -> SelAlphabet] : n \in 0..MaxSelLen }
    \cup { <<"0","0","7">>,
           <<"f","r","o","n","t","-","c","a","m">>,
           <<"6","5","5","3","5">>, <<"6","5","5","3","6">>,
           <<"4","2","9","4","9","6","7","2","9","5">>,
           <<"4","2","9","4","9","6","7","2","9","6">>,
           <<"4","2","9","4","9","6","7","3","0","0">>,
           <<"+","4","2","9","4","9","6","7","2","9","5">>,
           <<"0","0","4","2","9","4","9","6","7","2","9","5">>,
           <<"9","9","9","9","9","9","9","9","9","9">>,
           <<"1","0","0","0","0","0","0","0","0","0","0">>,
           <<"1","2"," ">>, <<"0","x","1">> }

\* ------------------------------------------------------------ environment
Some(v) == [tag |-> "Some", val |-> v]

\* injective sequences over S of length at most n: a report without repeats
RECURSIVE Arrangements(_, _)
Arrangements(S, n) ==
    IF n = 0 \/ S = {} THEN { <<>> }
    ELSE { <<>> } \cup UNION { { <<x>> \o rest : rest \in Arrangements(S \ {x}, n - 1) } : x \in S }

\* frame_formats(): a fixed list of distinct frame-format kinds (main.rs:202)
FrameFormats == [i \in 1..NumFormats |-> i]

Resolution(w, h) == [width |-> w, height |-> h]
Resolutions ==
    { Resolution(640, 480), Resolution(320, 240), Resolution(1280, 720), Resolution(640, 360) }

\* the frame rates a device offers at a resolution, in the order it reports them
FpsOf(r) == IF r.width >= 640 /\ r.height >= 480 THEN <<30, 15>>
            ELSE IF r.width = 640 THEN <<60>> ELSE <<15, 30, 60>>

\* Camera::compatible_list_by_resolution: an error, or a map from resolution
\* to frame rates; iterating the map (main.rs:206) yields its entries, each
\* resolution once, in an order the program does not control.
QueryResults ==
    { Err("query") }
    \cup { Ok([i \in DOMAIN rs |-> <<rs[i], FpsOf(rs[i])>>]) :
             rs \in Arrangements(Resolutions, Cardinality(Resolutions)) }

Controls == {"Brightness", "Zoom"}
ControlResults ==
    { Err("controls") } \cup { Ok(cs) : cs \in Arrangements(Controls, MaxCtrls) }

Devices == {"cam0", "cam1"}
DeviceResults ==
    { Err("backend"), Err("query") } \cup { Ok(ds) : ds \in Arrangements(Devices, MaxDevices) }

\* ------------------------------------------------------------------- output
UnknownCommandLine == [line |-> "Unknown command"]
ExpectedKindLine == [line |-> "Expected Positional Argument"]
CountLine(n) == [line |-> "There are n available cameras", n |-> n]
DeviceLine(d) == [line |-> "device", device |-> d]
ControlsHeader(index) == [line |-> "Controls for camera", index |-> index]
ControlLine(c) == [line |-> "control", control |-> c]
FormatHeader(ffmt) == [line |-> "format header", ffmt |-> ffmt]
ResolutionLine(fmt) == [line |-> "resolution", resolution |-> fmt[1], fps |-> fmt[2]]

\* ------------------------------------------------ camera_compatible_formats
\* Ord for Resolution: by width, then by height
ResolutionCmp(a, b) ==
    IF a.width < b.width THEN "Less"
    ELSE IF a.width > b.width THEN "Greater"
    ELSE IF a.height < b.height THEN "Less"
    ELSE IF a.height > b.height THEN "Greater"
    ELSE "Equal"

RECURSIVE InsertSorted(_, _)
InsertSorted(sorted, x) ==
    IF sorted = <<>> THEN <<x>>
    ELSE IF ResolutionCmp(x[1], Head(sorted)[1]) = "Less" THEN <<x>> \o sorted
    ELSE <<Head(sorted)>> \o InsertSorted(Tail(sorted), x)

RECURSIVE SortFrom(_, _)
SortFrom(formats, sorted) ==
    IF formats = <<>> THEN sorted
    ELSE SortFrom(Tail(formats), InsertSorted(sorted, Head(formats)))

\* A plausible variant: the list is printed as discovered.
SortByResolutionMissing(formats) == formats

\* formats.sort_by(|a, b| a.0.cmp(&b.0)) (main.rs:209): a stable sort
SortByResolution(formats) == SortFrom(formats, <<>>)

\* A plausible variant: the header is printed only for a non-empty list.
FormatOutputSkippingEmpty(ffmt, r) ==
    IF r.tag = "Ok" /\ r.val # <<>>
    THEN <<FormatHeader(ffmt)>>
         \o [i \in DOMAIN r.val |-> ResolutionLine(SortByResolution(r.val)[i])]
    ELSE <<>>

\* A plausible variant: a failed query still prints its header.
FormatOutputOnError(ffmt, r) ==
    IF r.tag = "Ok"
    THEN <<FormatHeader(ffmt)>>
         \o [i \in DOMAIN r.val |-> ResolutionLine(SortByResolution(r.val)[i])]
    ELSE <<FormatHeader(ffmt)>>

\* the body of the loop over frame_formats() (main.rs:203-214) for one kind:
\* what it prints given the query's result r
FormatOutput(ffmt, r) ==
    IF r.tag = "Ok"
    THEN LET formats == SortByResolution(r.val)
         IN  <<FormatHeader(ffmt)>> \o [i \in DOMAIN formats |-> ResolutionLine(formats[i])]
    ELSE <<>>

\* ------------------------------------------------------------ idle parts
NoCall == [recv |-> "none", decode |-> "none", recvs |-> 0, decodes |-> 0,
           image |-> None, submitted |-> FALSE, result |-> [tag |-> "none"]]

ParseIdle == arg = <<>> /\ result = None
CliIdle == cli = None /\ camera = None /\ stdout = <<>> /\ queried = <<>> /\ compatible = None
StreamIdle ==
    /\ queue = <<>> /\ senders = FALSE /\ captured = None /\ produced = 0
    /\ dpc = "idle" /\ buffer = None /\ selfBuffer = None /\ call = NoCall
    /\ draws = 0 /\ recvLog = <<>> /\ presented = <<>>

\* ------------------------------------------------------------ the parsers
InitParse ==
    /\ \/ pc = "kind" /\ arg \in KindTexts
       \/ pc = "index" /\ arg \in SelTexts
    /\ result = None
    /\ CliIdle /\ StreamIdle

\* <PropertyKind as FromStr>::from_str(arg)
ParsePropertyKind ==
    /\ pc = "kind"
    /\ result' = PropertyKindFromStr(arg)
    /\ pc' = "kind_done"
    /\ UNCHANGED <<arg, cliVars, streamVars>>

\* <IndexKind as FromStr>::from_str(arg)
ParseIndexKind ==
    /\ pc = "index"
    /\ result' = IndexKindFromStr(arg)
    /\ pc' = "index_done"
    /\ UNCHANGED <<arg, cliVars, streamVars>>

NextParse == ParsePropertyKind \/ ParseIndexKind

SpecParse == InitParse /\ [][NextParse]_vars

\* ------------------------------------------------------------ nokhwa_main
\* the values of struct Cli: no subcommand, list-devices, or list-properties
\* with an optional device and an optional kind
DeviceArgs ==
    { None } \cup { Some(IndexKindFromStr(t).val) :
                      t \in { <<"0">>, <<"f","r","o","n","t","-","c","a","m">> } }
KindArgs == { None, Some("All"), Some("Controls"), Some("CompatibleFormats") }
CliValues ==
    { [command |-> None], [command |-> Some([tag |-> "ListDevices"])] }
    \cup { [command |-> Some([tag |-> "ListProperties", device |-> d, kind |-> k])] :
             d \in DeviceArgs, k \in KindArgs }

Init ==
    /\ pc = "main"
    /\ cli \in CliValues
    /\ camera = None /\ stdout = <<>> /\ queried = <<>> /\ compatible = None
    /\ ParseIdle /\ StreamIdle

Println(lines) == stdout' = stdout \o lines

\* A plausible variant: with no subcommand the default camera is opened.
NoCommandStreams ==
    /\ pc = "main"
    /\ cli.command = None
    /\ camera' = Some([tag |-> "Index", val |-> U32(0, 0)])
    /\ pc' = "returned"
    /\ UNCHANGED <<cli, stdout, queried, compatible, parseVars, streamVars>>

\* main.rs:135-141: no subcommand
NoCommand ==
    /\ pc = "main"
    /\ cli.command = None
    /\ Println(<<UnknownCommandLine>>)
    /\ pc' = "returned"
    /\ UNCHANGED <<cli, camera, queried, compatible, parseVars, streamVars>>

\* main.rs:145-153: list-properties without a kind
MissingKind ==
    /\ pc = "main"
    /\ cli.command # None
    /\ cli.command.val.tag = "ListProperties"
    /\ cli.command.val.kind = None
    /\ Println(<<ExpectedKindLine>>)
    /\ pc' = "returned"
    /\ UNCHANGED <<cli, camera, queried, compatible, parseVars, streamVars>>

\* main.rs:158-165: list-devices; either unwrap panics on an error
ListDevices ==
    /\ pc = "main"
    /\ cli.command # None
    /\ cli.command.val.tag = "ListDevices"
    /\ \E r \in DeviceResults :
         IF r.tag = "Ok"
         THEN /\ Println(<<CountLine(Len(r.val))>> \o [i \in DOMAIN r.val |-> DeviceLine(r.val[i])])
              /\ pc' = "returned"
         ELSE /\ pc' = "panicked"
              /\ UNCHANGED stdout
    /\ UNCHANGED <<cli, camera, queried, compatible, parseVars, streamVars>>

\* device.as_ref().unwrap_or(&IndexKind::Index(0)) (main.rs:167-170)
CameraIndexOf(device) ==
    IF device = None THEN [tag |-> "Index", val |-> U32(0, 0)] ELSE device.val

\* A plausible variant: every kind takes the arm of All and prints controls.
OpenCameraControlsFirst ==
    /\ pc = "main"
    /\ cli.command # None
    /\ cli.command.val.tag = "ListProperties"
    /\ cli.command.val.kind # None
    /\ \E opened \in BOOLEAN :
         IF opened
         THEN /\ camera' = Some(CameraIndexOf(cli.command.val.device))
              /\ pc' = "controls"
         ELSE /\ pc' = "panicked"
              /\ UNCHANGED camera
    /\ UNCHANGED <<cli, stdout, queried, compatible, parseVars, streamVars>>

\* main.rs:166-187: list-properties opens the camera (unwrap panics on an
\* error) and dispatches on the kind
OpenCamera ==
    /\ pc = "main"
    /\ cli.command # None
    /\ cli.command.val.tag = "ListProperties"
    /\ cli.command.val.kind # None
    /\ \E opened \in BOOLEAN :
         IF opened
         THEN /\ camera' = Some(CameraIndexOf(cli.command.val.device))
              /\ pc' = IF cli.command.val.kind.val = "CompatibleFormats"
                       THEN "formats" ELSE "controls"
         ELSE /\ pc' = "panicked"
              /\ UNCHANGED camera
    /\ UNCHANGED <<cli, stdout, queried, compatible, parseVars, streamVars>>

\* camera_print_controls (main.rs:192-199), called for All and Controls
CameraPrintControls ==
    /\ pc = "controls"
    /\ \E r \in ControlResults :
         IF r.tag = "Ok"
         THEN /\ Println(<<ControlsHeader(camera.val)>>
                       \o [i \in DOMAIN r.val |-> ControlLine(r.val[i])])
              /\ pc' = IF cli.command.val.kind.val = "All" THEN "formats" ELSE "returned"
         ELSE /\ pc' = "panicked"
              /\ UNCHANGED stdout
    /\ UNCHANGED <<cli, camera, queried, compatible, parseVars, streamVars>>

\* camera_compatible_formats (main.rs:201-216), one iteration of its loop:
\* the next kind of frame_formats() is queried and its lines are printed
CameraCompatibleFormats ==
    /\ pc = "formats"
    /\ Len(queried) < Len(FrameFormats)
    /\ LET ffmt == FrameFormats[Len(queried) + 1] IN
       \E r \in QueryResults :
         /\ queried' = Append(queried, ffmt)
         /\ compatible' = r
         /\ Println(FormatOutput(ffmt, r))
    /\ pc' = IF Len(queried) + 1 = Len(FrameFormats) THEN "returned" ELSE "formats"
    /\ UNCHANGED <<cli, camera, parseVars, streamVars>>

Next ==
    \/ NoCommand
    \/ MissingKind
    \/ ListDevices
    \/ OpenCamera
    \/ CameraPrintControls
    \/ CameraCompatibleFormats

Spec == Init /\ [][Next]_vars

\* ------------------------------------------- the frame channel's producer
\* A frame is [id, valid]: valid tells whether its bytes decode.
Frame(i, v) == [id |-> i, valid |-> v]

InitStream ==
    /\ pc = "stream"
    /\ queue = <<>> /\ senders = TRUE /\ captured = None /\ produced = 0
    /\ dpc = "idle" /\ buffer = None /\ selfBuffer = None /\ call = NoCall
    /\ draws = 0 /\ recvLog = <<>> /\ presented = <<>>
    /\ ParseIdle /\ CliIdle

consumerVars == <<dpc, buffer, selfBuffer, call, draws, recvLog, presented>>

\* the capture loop reads the next frame from the device
ProducerRead ==
    /\ senders /\ captured = None
    /\ produced < MaxFrames
    /\ \E v \in BOOLEAN : captured' = Some(Frame(produced + 1, v))
    /\ produced' = produced + 1
    /\ UNCHANGED <<pc, queue, senders, consumerVars, parseVars, cliVars>>

\* the capture loop moves the frame it read into the channel
ProducerSend ==
    /\ senders /\ captured # None
    /\ queue' = Append(queue, captured.val)
    /\ captured' = None
    /\ UNCHANGED <<pc, senders, produced, consumerVars, parseVars, cliVars>>

\* a read fails: the capture loop ends and the sending side is dropped
ProducerTerminate ==
    /\ senders /\ captured = None
    /\ senders' = FALSE
    /\ UNCHANGED <<pc, queue, captured, produced, consumerVars, parseVars, cliVars>>

\* Receiver::recv: returns at once when a frame is queued or no sender is left
RecvReady(q, alive) == q # <<>> \/ ~alive
\* Receiver::recv: the oldest queued frame, or the disconnected error
RecvResult(q) == IF q # <<>> THEN Ok(Head(q)) ELSE Err("Disconnected")

\* ------------------------------------------------------ CaptureState::draw
RenderError(why) == [tag |-> "RenderError", why |-> why]

\* A plausible variant: a failed recv is swallowed and the call returns Ok.
DrawRecvSwallowing ==
    /\ pc = "stream" /\ dpc = "idle"
    /\ draws < MaxDraws
    /\ RecvReady(queue, senders)
    /\ draws' = draws + 1
    /\ LET r == RecvResult(queue) IN
       IF r.tag = "Ok"
       THEN /\ buffer' = Some(r.val)
            /\ queue' = Tail(queue)
            /\ recvLog' = Append(recvLog, [got |-> r.val.id, closed |-> ~senders])
            /\ call' = [NoCall EXCEPT !.recv = "ok", !.recvs = 1, !.result = [tag |-> "pending"]]
            /\ dpc' = "decode"
       ELSE /\ buffer' = None
            /\ queue' = queue
            /\ recvLog' = Append(recvLog, [got |-> 0, closed |-> ~senders])
            /\ call' = [NoCall EXCEPT !.recv = "err", !.recvs = 1, !.result = [tag |-> "Ok"]]
            /\ dpc' = "idle"
    /\ UNCHANGED <<pc, senders, captured, produced, selfBuffer, presented, parseVars, cliVars>>

\* A plausible variant: the frame is read but left in the channel.
DrawRecvPeeking ==
    /\ pc = "stream" /\ dpc = "idle"
    /\ draws < MaxDraws
    /\ RecvReady(queue, senders)
    /\ draws' = draws + 1
    /\ LET r == RecvResult(queue) IN
       IF r.tag = "Ok"
       THEN /\ buffer' = Some(r.val)
            /\ queue' = queue
            /\ recvLog' = Append(recvLog, [got |-> r.val.id, closed |-> ~senders])
            /\ call' = [NoCall EXCEPT !.recv = "ok", !.recvs = 1, !.result = [tag |-> "pending"]]
            /\ dpc' = "decode"
       ELSE /\ buffer' = None
            /\ queue' = queue
            /\ recvLog' = Append(recvLog, [got |-> 0, closed |-> ~senders])
            /\ call' = [NoCall EXCEPT !.recv = "err", !.recvs = 1,
                                      !.result = RenderError("recv")]
            /\ dpc' = "idle"
    /\ UNCHANGED <<pc, senders, captured, produced, selfBuffer, presented, parseVars, cliVars>>

\* main.rs:37-40: draw starts with one blocking recv; an error returns from
\* draw as a RenderError
DrawRecv ==
    /\ pc = "stream" /\ dpc = "idle"
    /\ draws < MaxDraws
    /\ RecvReady(queue, senders)
    /\ draws' = draws + 1
    /\ LET r == RecvResult(queue) IN
       IF r.tag = "Ok"
       THEN /\ buffer' = Some(r.val)
            /\ queue' = Tail(queue)
            /\ recvLog' = Append(recvLog, [got |-> r.val.id, closed |-> ~senders])
            /\ call' = [NoCall EXCEPT !.recv = "ok", !.recvs = 1, !.result = [tag |-> "pending"]]
            /\ dpc' = "decode"
       ELSE /\ buffer' = None
            /\ queue' = queue
            /\ recvLog' = Append(recvLog, [got |-> 0, closed |-> ~senders])
            /\ call' = [NoCall EXCEPT !.recv = "err", !.recvs = 1,
                                      !.result = RenderError("recv")]
            /\ dpc' = "idle"
    /\ UNCHANGED <<pc, senders, captured, produced, selfBuffer, presented, parseVars, cliVars>>

\* A plausible variant: the decode error is dropped and the call goes on.
DrawDecodeIgnoringError ==
    /\ pc = "stream" /\ dpc = "decode"
    /\ IF buffer.val.valid
       THEN /\ selfBuffer' = [state |-> "decoded", frame |-> buffer.val.id]
            /\ call' = [call EXCEPT !.decode = "ok", !.decodes = 1]
       ELSE /\ selfBuffer' = [state |-> "resized", frame |-> buffer.val.id]
            /\ call' = [call EXCEPT !.decode = "err", !.decodes = 1]
    /\ dpc' = "present"
    /\ UNCHANGED <<pc, queue, senders, captured, produced, buffer, draws, recvLog,
                   presented, parseVars, cliVars>>

\* main.rs:41-45: self.buffer is resized for the frame and the frame is
\* decoded into it; an error returns from draw as a RenderError
DrawDecode ==
    /\ pc = "stream" /\ dpc = "decode"
    /\ IF buffer.val.valid
       THEN /\ selfBuffer' = [state |-> "decoded", frame |-> buffer.val.id]
            /\ call' = [call EXCEPT !.decode = "ok", !.decodes = 1]
            /\ dpc' = "present"
            /\ UNCHANGED buffer
       ELSE /\ selfBuffer' = [state |-> "resized", frame |-> buffer.val.id]
            /\ call' = [call EXCEPT !.decode = "err", !.decodes = 1,
                                    !.result = RenderError("decode")]
            /\ dpc' = "idle"
            /\ buffer' = None
    /\ UNCHANGED <<pc, queue, senders, captured, produced, draws, recvLog,
                   presented, parseVars, cliVars>>

\* main.rs:46-54: the image is built from self.buffer and the canvas is
\* finished; draw returns what canvas.finish returns
DrawPresent ==
    /\ pc = "stream" /\ dpc = "present"
    /\ \E finished \in BOOLEAN :
         /\ call' = [call EXCEPT !.image = Some(selfBuffer.frame), !.submitted = TRUE,
                                 !.result = IF finished THEN [tag |-> "Ok"]
                                            ELSE [tag |-> "GameError", why |-> "finish"]]
         /\ presented' = IF finished THEN Append(presented, selfBuffer.frame) ELSE presented
    /\ buffer' = None
    /\ dpc' = "idle"
    /\ UNCHANGED <<pc, queue, senders, captured, produced, selfBuffer, draws, recvLog,
                   parseVars, cliVars>>

NextStream ==
    \/ ProducerRead
    \/ ProducerSend
    \/ ProducerTerminate
    \/ DrawRecv
    \/ DrawDecode
    \/ DrawPresent

SpecStream == InitStream /\ [][NextStream]_vars

\* ================================================================= claims

\* ---- C1 (as stated). PropertyKind::from_str is case-insensitive: every
\* casing of all / controls / ctrls / compatibleformats / cf / compatfmts
\* gives the matching kind, every other text gives the unknown-kind error.
C1_Original ==
    pc = "kind_done" =>
        LET l == ToLowerStr(arg) IN
        IF l = ToLowerStr(StrAll) THEN result = Ok("All")
        ELSE IF l \in {ToLowerStr(StrControls), StrCtrls} THEN result = Ok("Controls")
        ELSE IF l \in {ToLowerStr(StrCompatibleFormats), StrCf, StrCompatfmts}
             THEN result = Ok("CompatibleFormats")
        ELSE result.tag = "Err"

Spellings(name) == {name, ToLowerStr(name), ToUpperStr(name)}

\* ---- C1 (amended). PropertyKind::from_str accepts each kind name only in
\* its written, all-lower-case and all-upper-case spelling and the aliases
\* ctrls, cf and compatfmts only in lower case; every other text, other
\* casings such as "CF" included, gives the unknown-kind error naming it.
C1_Theorem ==
    pc = "kind_done" =>
        IF arg \in Spellings(StrAll) THEN result = Ok("All")
        ELSE IF arg \in Spellings(StrControls) \cup {StrCtrls} THEN result = Ok("Controls")
        ELSE IF arg \in Spellings(StrCompatibleFormats) \cup {StrCf, StrCompatfmts}
             THEN result = Ok("CompatibleFormats")
        ELSE result = Err([unknownPropertyKind |-> arg])

\* "CF" has been parsed and was rejected
C1_Witness ==
    pc = "kind_done" /\ arg = <<"C","F">> /\ result.tag = "Err"

\* ---- C7 helpers: the decimal reading of a text, independent of the parse
StripSign(s) == IF s # <<>> /\ s[1] = "+" THEN Tail(s) ELSE s
IsDecimal(s) ==
    LET d == StripSign(s) IN d # <<>> /\ \A i \in DOMAIN d : IsIn(d[i], Digits)
RECURSIVE StripZeros(_)
StripZeros(d) == IF Len(d) > 1 /\ d[1] = "0" THEN StripZeros(Tail(d)) ELSE d
U32MaxText == <<"4","2","9","4","9","6","7","2","9","5">>
RECURSIVE LexLeq(_, _)
LexLeq(a, b) ==
    IF a = <<>> THEN TRUE
    ELSE LET x == IndexIn(a[1], Digits)
             y == IndexIn(b[1], Digits)
         IN  x < y \/ (x = y /\ LexLeq(Tail(a), Tail(b)))
FitsU32(s) ==
    LET d == StripZeros(StripSign(s)) IN
    Len(d) < Len(U32MaxText) \/ (Len(d) = Len(U32MaxText) /\ LexLeq(d, U32MaxText))
RECURSIVE FormatU32(_)
FormatU32(n) ==
    LET low == (n.hi % Radix) * U32Limb + n.lo
        q == U32(n.hi \div Radix, low \div Radix)
        digit == <<Digits[(low % Radix) + 1]>>
    IN  IF q = U32(0, 0) THEN digit ELSE FormatU32(q) \o digit

\* ---- C7. IndexKind::from_str never fails: a text that parses as a u32
\* gives that integer ("0" gives 0, "007" gives 7), every other text gives
\* the string identifier holding exactly the text.
C7_Theorem ==
    pc = "index_done" =>
        /\ result.tag = "Ok"
        /\ IF IsDecimal(arg) /\ FitsU32(arg)
           THEN /\ result.val.tag = "Index"
                /\ FormatU32(result.val.val) = StripZeros(StripSign(arg))
           ELSE result.val = [tag |-> "String", val |-> arg]
        /\ arg = <<"0">> => result.val = [tag |-> "Index", val |-> U32(0, 0)]
        /\ arg = <<"0","0","7">> => result.val = [tag |-> "Index", val |-> U32(0, 7)]
        /\ arg = <<"f","r","o","n","t","-","c","a","m">> =>
               result.val = [tag |-> "String", val |-> arg]

\* a text too large for a u32 has been parsed and fell back to the string
C7_Witness ==
    /\ pc = "index_done"
    /\ arg = <<"4","2","9","4","9","6","7","2","9","6">>
    /\ result = Ok([tag |-> "String", val |-> arg])

\* ---- C2 (as stated). Started with no command verb the program streams:
\* it does not return without having opened a device.
C2_Original ==
    (cli.command = None /\ pc = "returned") => camera # None

\* ---- C2 (amended). Started with no command verb the program prints the
\* unknown-command message and returns: it opens no device and never enters
\* the presentation step.
C2_Theorem ==
    cli.command = None =>
        /\ camera = None
        /\ pc \in {"main", "returned"}
        /\ pc = "returned" => stdout = <<UnknownCommandLine>>
        /\ draws = 0 /\ dpc = "idle" /\ presented = <<>>

\* the program has returned from a start without a command verb
C2_Witness ==
    cli.command = None /\ pc = "returned" /\ stdout = <<UnknownCommandLine>>

\* ---- helpers over the printed lines
IsFormatHeader(l) == l.line = "format header"
IsResolutionLine(l) == l.line = "resolution"
IsControlOutput(l) == l.line \in {"Controls for camera", "control"}
LastQueried == queried[Len(queried)]
\* the last n printed lines
LastLines(n) == SubSeq(stdout, Len(stdout) - n + 1, Len(stdout))
HeaderPrinted(ffmt) == \E i \in DOMAIN stdout : stdout[i] = FormatHeader(ffmt)

\* ---- C3 (as stated). A kind whose query succeeds with zero combinations
\* prints nothing: every printed header is followed by a resolution line.
C3_Original ==
    \A i \in DOMAIN stdout :
        IsFormatHeader(stdout[i]) => i < Len(stdout) /\ IsResolutionLine(stdout[i + 1])

\* ---- C3 (amended). A kind whose query succeeds prints its header also
\* when the query yields zero combinations, and the header is then followed
\* by no resolution line; only a kind whose query fails prints nothing.
C3_Theorem ==
    (queried # <<>> /\ compatible # None) =>
        IF compatible.tag = "Ok"
        THEN LET n == Len(compatible.val) IN
             /\ Len(stdout) > n
             /\ stdout[Len(stdout) - n] = FormatHeader(LastQueried)
             /\ \A i \in 1..n : IsResolutionLine(LastLines(n)[i])
        ELSE ~HeaderPrinted(LastQueried)

\* a query succeeded with zero combinations and its bare header was printed
C3_Witness ==
    /\ queried # <<>> /\ compatible = Ok(<<>>)
    /\ stdout # <<>> /\ stdout[Len(stdout)] = FormatHeader(LastQueried)

\* ---- C4. Within one kind the resolution lines are a permutation of the
\* reported (resolution, frame rates) pairs, ascending by width and then by
\* height, whatever the order of discovery.
ResolutionsAscending(lines) ==
    \A i, j \in DOMAIN lines :
        i < j => \/ lines[i].resolution.width < lines[j].resolution.width
                 \/ /\ lines[i].resolution.width = lines[j].resolution.width
                    /\ lines[i].resolution.height < lines[j].resolution.height

C4_Theorem ==
    (queried # <<>> /\ compatible # None /\ compatible.tag = "Ok") =>
        LET n == Len(compatible.val)
            lines == LastLines(n)
        IN  /\ Len(stdout) >= n
            /\ \A i \in 1..n : IsResolutionLine(lines[i])
            /\ { <<lines[i].resolution, lines[i].fps>> : i \in 1..n }
                   = { compatible.val[i] : i \in 1..n }
            /\ ResolutionsAscending(lines)
            /\ { compatible.val[i][1] : i \in 1..n } = Resolutions =>
                   [i \in 1..n |-> lines[i].resolution]
                       = << Resolution(320, 240), Resolution(640, 360),
                            Resolution(640, 480), Resolution(1280, 720) >>

\* the four resolutions were discovered as (640,480), (320,240), (1280,720),
\* (640,360) and printed in ascending order
C4_Witness ==
    /\ compatible # None /\ compatible.tag = "Ok"
    /\ [i \in DOMAIN compatible.val |-> compatible.val[i][1]]
           = << Resolution(640, 480), Resolution(320, 240),
                Resolution(1280, 720), Resolution(640, 360) >>
    /\ Len(stdout) >= Len(compatible.val)
    /\ LastLines(Len(compatible.val))[1].resolution = Resolution(320, 240)

\* ---- C6. A failed query for one kind prints nothing and aborts nothing:
\* the kinds are queried in the fixed order of frame_formats(), all of them
\* by the time the program returns, and each kind whose query succeeds has
\* its header printed.
C6_Queried ==
    /\ Len(queried) <= Len(FrameFormats)
    /\ \A i \in DOMAIN queried : queried[i] = FrameFormats[i]
    /\ (pc = "returned" /\ queried # <<>>) => queried = FrameFormats
    /\ (pc = "formats") => Len(queried) < Len(FrameFormats)

C6_Step ==
    queried' # queried =>
        /\ queried' = Append(queried, FrameFormats[Len(queried) + 1])
        /\ pc' # "panicked"
        /\ IF compatible'.tag = "Err"
           THEN stdout' = stdout
           ELSE /\ Len(stdout') > Len(stdout)
                /\ SubSeq(stdout', 1, Len(stdout)) = stdout
                /\ stdout'[Len(stdout) + 1] = FormatHeader(FrameFormats[Len(queried) + 1])

\* C6: a failed query prints nothing and the remaining kinds are still queried in order and printed
C6_Theorem == []C6_Queried /\ [][C6_Step]_vars

\* the first kind's query failed and printed nothing, a later kind's query
\* succeeded and was printed
C6_Witness ==
    /\ Len(queried) >= 2
    /\ ~HeaderPrinted(queried[1])
    /\ compatible # None /\ compatible.tag = "Ok"
    /\ HeaderPrinted(LastQueried)

\* ---- C9. With kind All every control line precedes every format line;
\* each kind has at most one header and no resolution twice under it; kind
\* Controls prints no format line, kind CompatibleFormats no control line.
IsFormatOutput(l) == IsFormatHeader(l) \/ IsResolutionLine(l)

C9_Theorem ==
    (cli # None /\ cli.command # None /\ cli.command.val.tag = "ListProperties"
        /\ cli.command.val.kind # None) =>
        LET kind == cli.command.val.kind.val
            controls == { i \in DOMAIN stdout : IsControlOutput(stdout[i]) }
            headers == { i \in DOMAIN stdout : IsFormatHeader(stdout[i]) }
            resolutions == { i \in DOMAIN stdout : IsResolutionLine(stdout[i]) }
        IN
        /\ \A i \in controls : \A j \in headers \cup resolutions : i < j
        /\ \A i, j \in headers : stdout[i] = stdout[j] => i = j
        /\ \A i, j \in resolutions :
               (i < j /\ stdout[i].resolution = stdout[j].resolution) =>
                   \E h \in headers : i < h /\ h < j
        /\ \A i \in resolutions : \E h \in headers : h < i
        /\ kind = "Controls" => headers \cup resolutions = {}
        /\ kind = "CompatibleFormats" => controls = {}
        /\ (kind = "All" /\ pc = "returned") =>
               /\ stdout # <<>>
               /\ stdout[1] = ControlsHeader(camera.val)

\* list-properties All has returned after printing controls and then the
\* headers of two kinds with their resolution lines
C9_Witness ==
    /\ pc = "returned"
    /\ cli.command # None /\ cli.command.val.tag = "ListProperties"
    /\ cli.command.val.kind = Some("All")
    /\ \E i \in DOMAIN stdout : stdout[i].line = "control"
    /\ Cardinality({ i \in DOMAIN stdout : IsFormatHeader(stdout[i]) }) >= 2
    /\ Cardinality({ i \in DOMAIN stdout : IsResolutionLine(stdout[i]) }) >= 3

\* ---- helpers over the frame channel
ProducerGone == ~senders /\ captured = None
\* the places a frame can be held: the producer, the channel, draw's local
HeldByProducer(i) == captured # None /\ captured.val.id = i
InChannel(i) == \E k \in DOMAIN queue : queue[k].id = i
HeldByConsumer(i) == buffer # None /\ buffer.val.id = i
Holders(i) ==
    (IF HeldByProducer(i) THEN 1 ELSE 0)
    + Cardinality({ k \in DOMAIN queue : queue[k].id = i })
    + (IF HeldByConsumer(i) THEN 1 ELSE 0)

\* ---- C5. Once the producer is gone, a draw call's recv never blocks: it
\* returns the oldest frame still queued while there is one, and after the
\* queue is drained it returns the channel-closed error, which draw returns
\* as a render error; no frame that was never sent is returned.
C5_NoBlock ==
    (pc = "stream" /\ ProducerGone /\ dpc = "idle" /\ draws < MaxDraws) => ENABLED DrawRecv

C5_Sent ==
    \A k \in DOMAIN recvLog : recvLog[k].got # 0 => recvLog[k].got \in 1..produced

C5_Step ==
    (ProducerGone /\ draws' = draws + 1) =>
        IF queue # <<>>
        THEN /\ buffer' = Some(Head(queue))
             /\ queue' = Tail(queue)
             /\ recvLog'[Len(recvLog')].got = Head(queue).id
        ELSE /\ buffer' = None
             /\ queue' = <<>>
             /\ recvLog'[Len(recvLog')].got = 0
             /\ call'.result = RenderError("recv")
             /\ dpc' = "idle"

\* C5: once the producer is gone recv never blocks, returns the queued frames oldest first, then the channel-closed error
C5_Theorem == [](C5_NoBlock /\ C5_Sent) /\ [][C5_Step]_vars

\* after the producer was gone a recv returned a queued frame, and a later
\* recv returned the channel-closed error
C5_Witness ==
    /\ ProducerGone
    /\ \E i, j \in DOMAIN recvLog :
           /\ i < j
           /\ recvLog[i].closed /\ recvLog[i].got # 0
           /\ recvLog[j].closed /\ recvLog[j].got = 0
    /\ call.result = RenderError("recv")

\* ---- C8. A failure of recv or of the decode is returned from the same
\* draw call as a render error; in that call no image is built, nothing is
\* submitted for presentation, and neither step is tried a second time.
C8_Theorem ==
    (call.recv = "err" \/ call.decode = "err") =>
        /\ dpc = "idle"
        /\ call.result.tag = "RenderError"
        /\ call.image = None
        /\ ~call.submitted
        /\ call.recvs = 1
        /\ call.decodes = (IF call.recv = "err" THEN 0 ELSE 1)
        /\ buffer = None
        /\ \A k \in DOMAIN presented :
               call.decode = "err" => presented[k] # selfBuffer.frame

\* a draw call whose decode failed has returned the render error
C8_Witness ==
    /\ call.decode = "err" /\ dpc = "idle"
    /\ call.result = RenderError("decode")
    /\ presented # <<>>

\* ---- C10 (as stated). Each frame is taken by at most one draw call, each
\* draw call takes exactly one frame, and no frame is held by the producer
\* and the consumer at once.
C10_Original ==
    /\ \A i \in 1..produced : Holders(i) <= 1
    /\ \A j, k \in DOMAIN recvLog :
           (recvLog[j].got # 0 /\ recvLog[j].got = recvLog[k].got) => j = k
    /\ Len(recvLog) = draws
    /\ \A k \in DOMAIN recvLog : recvLog[k].got # 0

\* ---- C10 (amended). Each frame is taken by at most one draw call and is
\* never held in two places at once; a draw call takes at most one frame:
\* the oldest one queued when its recv succeeds, and none when its recv
\* fails because the producer is gone and the queue is empty.
C10_Ownership ==
    /\ \A i \in 1..produced : Holders(i) <= 1
    /\ \A j, k \in DOMAIN recvLog :
           (recvLog[j].got # 0 /\ recvLog[j].got = recvLog[k].got) => j = k
    /\ Len(recvLog) = draws
    /\ \A i \in 1..produced :
           (\E k \in DOMAIN recvLog : recvLog[k].got = i) => Holders(i) <= (IF HeldByConsumer(i) THEN 1 ELSE 0)

C10_Step ==
    /\ draws' # draws =>
        /\ draws' = draws + 1
        /\ Len(recvLog') = Len(recvLog) + 1
        /\ IF queue # <<>>
           THEN /\ recvLog'[Len(recvLog')].got = Head(queue).id
                /\ buffer' = Some(Head(queue))
                /\ queue' = Tail(queue)
           ELSE /\ ~senders
                /\ recvLog'[Len(recvLog')].got = 0
                /\ buffer' = None
                /\ queue' = queue
    /\ draws' = draws => (recvLog' = recvLog /\ Len(queue') >= Len(queue))

\* C10: a frame has one holder and one taker, and a draw call takes the oldest queued frame or, on a closed empty channel, none
C10_Theorem == []C10_Ownership /\ [][C10_Step]_vars

\* draw calls took two frames in the order they were sent while the
\* producer held a third, and a later producer exit made a recv fail
C10_Witness ==
    /\ Len(recvLog) >= 3
    /\ recvLog[1].got = 1 /\ recvLog[2].got = 2
    /\ recvLog[Len(recvLog)].got = 0

====
